---- MODULE Spec2Model ----
(***************************************************************************)
(* A model of logic-testing/slot-simulator.py: the SlotGameSimulator       *)
(* class (paytable parsing, reel spin, wild expansion, scatter and payline *)
(* evaluation) and the Monte Carlo loop of run_simulation.                 *)
(*                                                                         *)
(* Money.  The code scales a raw paytable amount with float arithmetic:    *)
(*   scatter: raw / base_bet_for_paytable_display * total_bet_per_spin     *)
(*   line:    raw / (base_bet_for_paytable_display / num_lines)            *)
(*                * bet_per_line                                           *)
(* The model keeps every amount as an exact integer number of              *)
(* 1/base_bet_for_paytable_display credits, so a scatter amount is         *)
(* raw * total_bet_per_spin units and a line amount is                     *)
(* raw * num_lines * bet_per_line units.  Float rounding is not modelled.  *)
(*                                                                         *)
(* Python lists are 0-based; the model keeps the code's 0-based indices    *)
(* and reads a TLA+ sequence through At / PyAt.                            *)
(*                                                                         *)
(* The console output of run_simulation (banner, progress line, timing) is *)
(* not state; the printed results are the record `report`.  In exact       *)
(* arithmetic the variance is never negative, so math.sqrt does not raise. *)
(***************************************************************************)
EXTENDS Integers, Sequences, FiniteSets, TLC

VARIABLES
    config,                  \* the dict handed to SlotGameSimulator(config)
    line_pays,               \* self.line_pays, set by _parse_paytable
    scatter_pays,            \* self.scatter_pays, set by _parse_paytable
    regular_symbols_order,   \* iteration order of the set self.regular_symbols
    pc,                      \* "idle" | "running" | "finalized" | "raised"
    raised,                  \* the exception that ended run_simulation, or "none"
    runs,                    \* number of run_simulation calls made so far
    num_spins,               \* the argument of the current run_simulation call
    i,                       \* loop iterations of run_simulation completed
    total_payout,
    sum_of_squared_payouts,
    total_spins,
    total_winning_spins,
    max_win,
    payout_contributions,    \* the ledger: combination key -> amount credited
    spin,                    \* the locals of the last loop iteration
    report,                  \* the report printed by the current call, or NoReport
    checked_line,            \* the argument of a call of _check_line_win
    line_win                 \* what that call returned, or NoLine

vars == << config, line_pays, scatter_pays, regular_symbols_order, pc, raised, runs, num_spins, i,
           total_payout, sum_of_squared_payouts, total_spins,
           total_winning_spins, max_win, payout_contributions, spin, report,
           checked_line, line_win >>

-----------------------------------------------------------------------------
(* Bounds of the model *)

MaxSpins == 2
MaxRuns == 2

-----------------------------------------------------------------------------
(* Python helpers *)

\* config.get(key, default)
Get(d, key, default) == IF key \in DOMAIN d THEN d[key] ELSE default

\* a valid Python list index: -len <= idx < len
InRange(idx, len) == -len <= idx /\ idx < len

\* list[idx] for a valid index (a negative index counts from the end)
PyAt(list, idx) == list[(idx % Len(list)) + 1]

\* list[idx] for 0 <= idx < len
At(list, idx) == list[idx + 1]

\* str.isdigit() and int(str) on the count keys of a paytable entry
\* (one-character keys; any other key, such as "note", is not a number)
DigitValue ==
    [ k \in {"0", "1", "2", "3", "4", "5", "6", "7", "8", "9"} |->
        CASE k = "0" -> 0 [] k = "1" -> 1 [] k = "2" -> 2 [] k = "3" -> 3
          [] k = "4" -> 4 [] k = "5" -> 5 [] k = "6" -> 6 [] k = "7" -> 7
          [] k = "8" -> 8 [] k = "9" -> 9 ]

IsDigit(k) == k \in DOMAIN DigitValue

ToInt(k) == DigitValue[k]

RECURSIVE SumSeq(_)
SumSeq(s) == IF s = << >> THEN 0 ELSE Head(s) + SumSeq(Tail(s))

RECURSIVE SeqToSet(_)
SeqToSet(s) == IF s = << >> THEN {} ELSE {Head(s)} \cup SeqToSet(Tail(s))

\* every order in which a set can be iterated
Orderings(S) ==
    { o \in [1..Cardinality(S) -> S] : \A a, b \in 1..Cardinality(S) : a # b => o[a] # o[b] }

-----------------------------------------------------------------------------
(* Configurations handed to the constructor *)

PaytableTies ==
    [ Seven |-> ("2" :> 1 @@ "3" :> 4 @@ "4" :> 10 @@ "5" :> 20),
      Plum |-> ("3" :> 4 @@ "4" :> 8 @@ "5" :> 12),
      Orange |-> ("3" :> 4 @@ "5" :> 12),
      DollarScatter |-> ("3" :> 5 @@ "4" :> 20 @@ "5" :> 50),
      StarScatter |-> ("3" :> 20 @@ "note" :> "Only appears on 1st, 3rd and 5th reels.") ]

PaytableLoop ==
    [ Seven |-> ("2" :> 1 @@ "3" :> 4 @@ "4" :> 10 @@ "5" :> 20),
      Plum |-> ("3" :> 4 @@ "4" :> 8 @@ "5" :> 12),
      DollarScatter |-> ("3" :> 5 @@ "4" :> 20 @@ "5" :> 50),
      StarScatter |-> ("2" :> 20 @@ "note" :> "Only appears on 1st, 3rd and 5th reels.") ]

PaytableZero ==
    [ Seven |-> ("2" :> 0 @@ "3" :> 0 @@ "4" :> 0 @@ "5" :> 0),
      Plum |-> ("3" :> 0 @@ "4" :> 0 @@ "5" :> 0),
      DollarScatter |-> ("3" :> 0 @@ "4" :> 0 @@ "5" :> 0),
      StarScatter |-> ("2" :> 0) ]

StripsFive ==
    << << "Seven", "Plum", "Wild", "StarScatter" >>,
       << "Wild", "Plum", "DollarScatter" >>,
       << "Seven", "Wild", "StarScatter", "DollarScatter" >>,
       << "Plum", "DollarScatter" >>,
       << "Orange", "StarScatter" >> >>

StripsLoop ==
    << << "Seven", "Plum", "Plum", "StarScatter" >>,
       << "Seven", "DollarScatter" >>,
       << "Seven" >>,
       << "Wild", "DollarScatter" >>,
       << "Plum" >> >>

ConfigTies ==
    [ config_name |-> "ties", paytable |-> PaytableTies,
      virtual_reel_strips |-> StripsFive,
      num_lines |-> 10, bet_per_line |-> 1, base_bet_for_paytable_display |-> 100,
      wild_symbol |-> "Wild", scatter_symbols |-> << "DollarScatter", "StarScatter" >>,
      wild_reels |-> << 2, 3, 4 >>, star_scatter_reels |-> << 1, 3, 5 >> ]

\* the same game with other reel sets and another bet
ConfigOtherSets ==
    [ config_name |-> "other-sets", paytable |-> PaytableTies,
      virtual_reel_strips |-> StripsFive,
      bet_per_line |-> 2,
      wild_reels |-> << 1, 2 >>, star_scatter_reels |-> << 3, 5 >> ]

ConfigLoop ==
    [ config_name |-> "loop", paytable |-> PaytableLoop,
      virtual_reel_strips |-> StripsLoop ]

ConfigZero ==
    [ config_name |-> "zero", paytable |-> PaytableZero,
      virtual_reel_strips |-> StripsLoop ]

\* the 3-reel toy configuration: reels A, W, A and the default reel sets
ConfigThreeReels ==
    [ config_name |-> "three", paytable |-> [ A |-> ("3" :> 100) ],
      wild_symbol |-> "W",
      virtual_reel_strips |-> << << "A" >>, << "W" >>, << "A" >> >> ]

\* three reels, with reel sets that lie inside the screen
ConfigThreeReelsSets ==
    [ config_name |-> "three-sets", paytable |-> [ A |-> ("3" :> 100) ],
      wild_symbol |-> "W", wild_reels |-> << 2 >>, star_scatter_reels |-> << 1, 3 >>,
      virtual_reel_strips |-> << << "A" >>, << "W" >>, << "A" >> >> ]

ConfigSixReels ==
    [ config_name |-> "six", paytable |-> [ Plum |-> ("3" :> 4 @@ "5" :> 12) ],
      virtual_reel_strips |->
          << << "Seven", "Seven", "Plum", "Seven" >>, << "Plum" >>, << "Plum" >>,
             << "Plum" >>, << "Plum" >>, << "Plum" >> >> ]

\* reel4 missing from the reel file: reel_data_from_file.get("reel4", [])
ConfigEmptyReel ==
    [ config_name |-> "empty", paytable |-> PaytableLoop,
      virtual_reel_strips |->
          << << "Seven" >>, << "Plum" >>, << "Seven" >>, << >>, << "Plum" >> >> ]

\* the configurations of the simulation runs
Configs ==
    { ConfigLoop, ConfigZero, ConfigThreeReels, ConfigThreeReelsSets,
      ConfigSixReels, ConfigEmptyReel }

\* the configurations of the single-spin evaluations
SpinConfigs == { ConfigTies, ConfigOtherSets }

-----------------------------------------------------------------------------
(* SlotGameSimulator.__init__ *)

paytable == config.paytable
virtual_reel_strips == config.virtual_reel_strips
num_reels == Len(virtual_reel_strips)
num_rows == 3
bet_per_line == Get(config, "bet_per_line", 1)
num_lines == Get(config, "num_lines", 10)
total_bet_per_spin == bet_per_line * num_lines
base_bet_for_paytable_display == Get(config, "base_bet_for_paytable_display", 100)
wild_symbol == Get(config, "wild_symbol", "Wild")
scatter_symbols == SeqToSet(Get(config, "scatter_symbols", << "DollarScatter", "StarScatter" >>))

ZeroBased(reels) == [ k \in 1..Len(reels) |-> reels[k] - 1 ]

wild_reels == ZeroBased(Get(config, "wild_reels", << 2, 3, 4 >>))
star_scatter_reels == ZeroBased(Get(config, "star_scatter_reels", << 1, 3, 5 >>))

(* _parse_paytable *)

regular_symbols == { s \in DOMAIN paytable : s # wild_symbol /\ s \notin scatter_symbols }

ParseLinePays ==
    LET keys == { << s, k >> \in UNION { {s} \X DOMAIN paytable[s] : s \in regular_symbols } :
                    IsDigit(k) }
    IN  [ p \in { << e[1], ToInt(e[2]) >> : e \in keys } |->
            LET k == CHOOSE k \in DOMAIN paytable[p[1]] : IsDigit(k) /\ ToInt(k) = p[2]
            IN  paytable[p[1]][k] ]

ParseScatterPays ==
    [ s \in { s \in DOMAIN paytable : s # wild_symbol /\ s \in scatter_symbols } |->
        [ n \in { ToInt(k) : k \in { k \in DOMAIN paytable[s] : IsDigit(k) } } |->
            LET k == CHOOSE k \in DOMAIN paytable[s] : IsDigit(k) /\ ToInt(k) = n
            IN  paytable[s][k] ] ]

(* _define_paylines *)

paylines ==
    << << <<0, 1>>, <<1, 1>>, <<2, 1>>, <<3, 1>>, <<4, 1>> >>,
       << <<0, 0>>, <<1, 0>>, <<2, 0>>, <<3, 0>>, <<4, 0>> >>,
       << <<0, 2>>, <<1, 2>>, <<2, 2>>, <<3, 2>>, <<4, 2>> >>,
       << <<0, 0>>, <<1, 1>>, <<2, 2>>, <<3, 1>>, <<4, 0>> >>,
       << <<0, 2>>, <<1, 1>>, <<2, 0>>, <<3, 1>>, <<4, 2>> >>,
       << <<0, 0>>, <<1, 0>>, <<2, 1>>, <<3, 2>>, <<4, 2>> >>,
       << <<0, 2>>, <<1, 2>>, <<2, 1>>, <<3, 0>>, <<4, 0>> >>,
       << <<0, 1>>, <<1, 2>>, <<2, 2>>, <<3, 2>>, <<4, 1>> >>,
       << <<0, 1>>, <<1, 0>>, <<2, 0>>, <<3, 0>>, <<4, 1>> >>,
       << <<0, 0>>, <<1, 1>>, <<2, 1>>, <<3, 1>>, <<4, 0>> >> >>

-----------------------------------------------------------------------------
(* _spin_reels *)

\* the values [random.randrange(len(strip)) for strip in strips] can take
StopPositions ==
    LET lens == { Len(virtual_reel_strips[r]) : r \in 1..num_reels }
        longest == CHOOSE n \in lens : \A m \in lens : m <= n
    IN  { s \in [1..num_reels -> 0..longest - 1] :
            \A r \in 1..num_reels : s[r] < Len(virtual_reel_strips[r]) }

\* random.randrange(0) raises ValueError
SpinReelsRaises == \E r \in 1..num_reels : Len(virtual_reel_strips[r]) = 0

SpinReels(stop_positions) ==
    [ r \in 1..num_reels |->
        LET reel_strip == virtual_reel_strips[r]
            start_index == stop_positions[r]
        IN  [ j \in 1..num_rows |-> At(reel_strip, (start_index + (j - 1)) % Len(reel_strip)) ] ]

-----------------------------------------------------------------------------
(* _apply_expanding_wilds *)

\* the loop over self.wild_reels from its k-th entry on; err is an IndexError
RECURSIVE ExpandFrom(_, _)
ExpandFrom(current_visible_symbols, k) ==
    IF k > Len(wild_reels)
    THEN [ err |-> FALSE, cur |-> current_visible_symbols ]
    ELSE LET reel_idx == wild_reels[k]
             n == Len(current_visible_symbols)
         IN  IF ~InRange(reel_idx, n)
             THEN [ err |-> TRUE, cur |-> current_visible_symbols ]
             ELSE IF \E row \in 1..num_rows : PyAt(current_visible_symbols, reel_idx)[row] = wild_symbol
                  THEN ExpandFrom([ current_visible_symbols EXCEPT
                                      ![(reel_idx % n) + 1] = [ row \in 1..num_rows |-> wild_symbol ] ],
                                  k + 1)
                  ELSE ExpandFrom(current_visible_symbols, k + 1)

\* without the copy [col[:] for col in visible_symbols]
ApplyExpandingWilds_InPlace(visible_symbols) ==
    LET e == ExpandFrom(visible_symbols, 1)
    IN  [ err |-> e.err, orig |-> e.cur, cur |-> e.cur ]

\* orig is the caller's list after the call, cur the list returned
ApplyExpandingWilds(visible_symbols) ==
    LET e == ExpandFrom(visible_symbols, 1)
    IN  [ err |-> e.err, orig |-> visible_symbols, cur |-> e.cur ]

-----------------------------------------------------------------------------
(* _check_line_win *)

NoKey == [ symbol |-> "None", count |-> 0, scatter |-> FALSE ]

\* f"{symbol} x{count}" and f"{symbol} x{count} (Scatter)"
LineKey(symbol, count) == [ symbol |-> symbol, count |-> count, scatter |-> FALSE ]
ScatterKey(symbol, count) == [ symbol |-> symbol, count |-> count, scatter |-> TRUE ]

\* the inner loop over range(self.num_reels) from index idx on:
\* consecutive_count, or -1 for the IndexError of line_symbols[idx]
RECURSIVE ConsecutiveCount(_, _, _)
ConsecutiveCount(line_symbols, target_symbol, idx) ==
    IF idx >= num_reels THEN idx
    ELSE IF ~InRange(idx, Len(line_symbols)) THEN -1
    ELSE LET symbol_on_line == At(line_symbols, idx)
         IN  IF symbol_on_line = target_symbol
                \/ (symbol_on_line = wild_symbol /\ target_symbol \notin scatter_symbols)
             THEN ConsecutiveCount(line_symbols, target_symbol, idx + 1)
             ELSE idx

\* without the premium symbol's minimum of 2
MinMatch_AlwaysThree(target_symbol) == 3

MinMatch(target_symbol) == IF target_symbol = "Seven" THEN 2 ELSE 3

\* the loop over range(consecutive_count, min_match - 1, -1): the count at which
\* it breaks, or 0 when it runs out
RECURSIVE FirstPaying(_, _, _)
FirstPaying(target_symbol, count_match, min_match) ==
    IF count_match < min_match THEN 0
    ELSE IF << target_symbol, count_match >> \in DOMAIN line_pays THEN count_match
    ELSE FirstPaying(target_symbol, count_match - 1, min_match)

\* the outer loop over self.regular_symbols, iterated in `order`, from entry k on
RECURSIVE CheckFrom(_, _, _, _, _)
CheckFrom(line_symbols, order, k, best_raw_payout_on_line, best_combo_key_on_line) ==
    IF k > Len(order)
    THEN [ err |-> FALSE, payout |-> best_raw_payout_on_line, key |-> best_combo_key_on_line ]
    ELSE LET target_symbol == order[k]
             consecutive_count == ConsecutiveCount(line_symbols, target_symbol, 0)
             count_match == FirstPaying(target_symbol, consecutive_count, MinMatch(target_symbol))
         IN  IF consecutive_count = -1
             THEN [ err |-> TRUE, payout |-> best_raw_payout_on_line, key |-> best_combo_key_on_line ]
             ELSE IF count_match # 0
                     /\ line_pays[<< target_symbol, count_match >>] > best_raw_payout_on_line
                  THEN CheckFrom(line_symbols, order, k + 1,
                                 line_pays[<< target_symbol, count_match >>],
                                 LineKey(target_symbol, count_match))
                  ELSE CheckFrom(line_symbols, order, k + 1,
                                 best_raw_payout_on_line, best_combo_key_on_line)

CheckLineWin(line_symbols, order) == CheckFrom(line_symbols, order, 1, 0, NoKey)

-----------------------------------------------------------------------------
(* _calculate_spin_payout *)

\* self.payout_contributions = defaultdict(float)
EmptyLedger == << >>

\* self.payout_contributions[key] = amount
Credit_Overwrite(ledger, key, amount) ==
    IF key \in DOMAIN ledger
    THEN [ ledger EXCEPT ![key] = amount ]
    ELSE ledger @@ (key :> amount)

\* self.payout_contributions[key] += amount
Credit(ledger, key, amount) ==
    IF key \in DOMAIN ledger
    THEN [ ledger EXCEPT ![key] = @ + amount ]
    ELSE ledger @@ (key :> amount)

\* raw_payout / self.base_bet_for_paytable_display * self.total_bet_per_spin,
\* in units of 1/base_bet_for_paytable_display credits
ScaledScatterPayout(raw_payout) == raw_payout * total_bet_per_spin

\* dividing by the whole display bet instead of the display bet per line
ScaledLinePayout_WholeBet(raw_line_payout) == raw_line_payout * bet_per_line

\* raw_line_payout / self.base_bet_per_line_display * self.bet_per_line,
\* in units of 1/base_bet_for_paytable_display credits
ScaledLinePayout(raw_line_payout) == raw_line_payout * num_lines * bet_per_line

\* col.count(symbol)
CountIn(col, symbol) == Cardinality({ row \in 1..Len(col) : col[row] = symbol })

\* sum(col.count("DollarScatter") for col in screen)
DollarScatterCount(screen) ==
    SumSeq([ r \in 1..Len(screen) |-> CountIn(screen[r], "DollarScatter") ])

\* counting the cells of the restricted reels instead of the reels
RECURSIVE StarScatterCount_Cells(_, _, _)
StarScatterCount_Cells(screen, k, star_scatter_count) ==
    IF k > Len(star_scatter_reels) THEN star_scatter_count
    ELSE LET r_idx == star_scatter_reels[k]
         IN  IF ~InRange(r_idx, Len(screen)) THEN -1
             ELSE StarScatterCount_Cells(screen, k + 1,
                      star_scatter_count + CountIn(PyAt(screen, r_idx), "StarScatter"))

\* the loop over self.star_scatter_reels from entry k on: star_scatter_count,
\* or -1 for the IndexError of screen[r_idx]
RECURSIVE StarScatterCount(_, _, _)
StarScatterCount(screen, k, star_scatter_count) ==
    IF k > Len(star_scatter_reels) THEN star_scatter_count
    ELSE LET r_idx == star_scatter_reels[k]
         IN  IF ~InRange(r_idx, Len(screen)) THEN -1
             ELSE IF \E row \in 1..num_rows : PyAt(screen, r_idx)[row] = "StarScatter"
                  THEN StarScatterCount(screen, k + 1, star_scatter_count + 1)
                  ELSE StarScatterCount(screen, k + 1, star_scatter_count)

\* the scatter part for one scatter symbol with its computed count
ScatterStep(st, symbol, count) ==
    IF symbol \in DOMAIN scatter_pays /\ count \in DOMAIN scatter_pays[symbol]
    THEN LET scaled_payout == ScaledScatterPayout(scatter_pays[symbol][count])
         IN  [ payout |-> st.payout + scaled_payout,
               win |-> TRUE,
               ledger |-> Credit(st.ledger, ScatterKey(symbol, count), scaled_payout) ]
    ELSE st

\* [expanded[reel_idx][row_idx] for reel_idx, row_idx in payline]
LineRaises(expanded, payline) ==
    \E c \in 1..Len(payline) :
        \/ ~InRange(payline[c][1], Len(expanded))
        \/ ~InRange(payline[c][2], Len(PyAt(expanded, payline[c][1])))

LineSymbols(expanded, payline) ==
    [ c \in 1..Len(payline) |-> PyAt(PyAt(expanded, payline[c][1]), payline[c][2]) ]

\* the body of the loop over self.paylines, given the result of _check_line_win
LineStep(st, line) ==
    IF line.payout > 0
    THEN LET scaled_line_payout == ScaledLinePayout(line.payout)
         IN  [ payout |-> st.payout + scaled_line_payout,
               win |-> TRUE,
               ledger |-> Credit(st.ledger, line.key, scaled_line_payout) ]
    ELSE st

\* the loop over self.paylines from payline k on; err is an IndexError
RECURSIVE LinesFrom(_, _, _, _)
LinesFrom(expanded, order, k, st) ==
    IF k > Len(paylines) THEN [ err |-> FALSE, st |-> st ]
    ELSE IF LineRaises(expanded, paylines[k]) THEN [ err |-> TRUE, st |-> st ]
    ELSE LET line == CheckLineWin(LineSymbols(expanded, paylines[k]), order)
         IN  IF line.err THEN [ err |-> TRUE, st |-> st ]
             ELSE LinesFrom(expanded, order, k + 1, LineStep(st, line))

\* _calculate_spin_payout(original_visible_symbols) with self.payout_contributions
\* = ledger and self.regular_symbols iterated in `order`.  err: an IndexError
\* left the method; ledger is then what had been credited before it.
CalculateSpinPayout(visible, ledger, order) ==
    LET ex == ApplyExpandingWilds(visible)
        original == ex.orig
        expanded == ex.cur
        st0 == [ payout |-> 0, win |-> FALSE, ledger |-> ledger ]
        dollar == DollarScatterCount(original)
        st1 == ScatterStep(st0, "DollarScatter", dollar)
        star == StarScatterCount(original, 1, 0)
        st2 == ScatterStep(st1, "StarScatter", star)
        lines == LinesFrom(expanded, order, 1, st2)
        res(err, st, d, s) ==
            [ err |-> err, payout |-> st.payout, win |-> st.win, ledger |-> st.ledger,
              original |-> original, expanded |-> expanded,
              dollar_scatter_count |-> d, star_scatter_count |-> s ]
    IN  IF ex.err THEN res(TRUE, st0, 0, 0)
        ELSE IF star = -1 THEN res(TRUE, st1, dollar, 0)
        ELSE res(lines.err, lines.st, dollar, star)

-----------------------------------------------------------------------------
(* run_simulation *)

NoSpin == [ done |-> FALSE ]
NoReport == [ emitted |-> FALSE ]
NoLine == [ checked |-> FALSE ]

\* without self.total_payout = 0 and self.max_win = 0
ZeroedStats_KeepTotals ==
    /\ UNCHANGED << total_payout, max_win >>
    /\ sum_of_squared_payouts' = 0
    /\ total_winning_spins' = 0
    /\ payout_contributions' = EmptyLedger

\* the assignments that reset the statistics at the start of run_simulation
ZeroedStats ==
    /\ total_payout' = 0
    /\ sum_of_squared_payouts' = 0
    /\ total_winning_spins' = 0
    /\ max_win' = 0
    /\ payout_contributions' = EmptyLedger

\* the simulator after SlotGameSimulator(config), in a process whose string
\* hashing iterates self.regular_symbols in regular_symbols_order
Constructed(configs) ==
    /\ config \in configs
    /\ line_pays = ParseLinePays
    /\ scatter_pays = ParseScatterPays
    /\ regular_symbols_order \in Orderings(regular_symbols)
    /\ pc = "idle"
    /\ raised = "none"
    /\ runs = 0
    /\ num_spins = 0
    /\ i = 0
    /\ total_payout = 0
    /\ sum_of_squared_payouts = 0
    /\ total_spins = 0
    /\ total_winning_spins = 0
    /\ max_win = 0
    /\ payout_contributions = EmptyLedger
    /\ spin = NoSpin
    /\ report = NoReport
    /\ line_win = NoLine

Init ==
    /\ Constructed(Configs)
    /\ checked_line = << >>

\* what run_simulation never assigns
Fixed == << config, line_pays, scatter_pays, regular_symbols_order, checked_line, line_win >>

\* run_simulation(n) up to the loop: the statistics are reset
RunSimulation(n) ==
    /\ pc \in {"idle", "finalized"}
    /\ runs < MaxRuns
    /\ runs' = runs + 1
    /\ pc' = "running"
    /\ num_spins' = n
    /\ total_spins' = n
    /\ i' = 0
    /\ ZeroedStats
    /\ spin' = NoSpin
    /\ report' = NoReport
    /\ UNCHANGED << Fixed, raised >>

\* the statistics after an iteration whose _calculate_spin_payout returned r
Accumulate(r) ==
    /\ total_payout' = total_payout + r.payout
    /\ sum_of_squared_payouts' = sum_of_squared_payouts + r.payout * r.payout
    /\ total_winning_spins' = IF r.win THEN total_winning_spins + 1 ELSE total_winning_spins
    /\ max_win' = IF r.payout > max_win THEN r.payout ELSE max_win

\* one iteration of the loop: _spin_reels, _calculate_spin_payout and the
\* update of the totals, or the IndexError that leaves _calculate_spin_payout
SpinStep(stop_positions) ==
    /\ pc = "running"
    /\ i < num_spins
    /\ ~SpinReelsRaises
    /\ \E r \in { CalculateSpinPayout(SpinReels(stop_positions), payout_contributions,
                                      regular_symbols_order) } :
          /\ payout_contributions' = r.ledger
          /\ IF r.err
             THEN /\ pc' = "raised"
                  /\ raised' = "IndexError"
                  /\ UNCHANGED << i, total_payout, sum_of_squared_payouts,
                                  total_winning_spins, max_win, spin >>
             ELSE /\ Accumulate(r)
                  /\ i' = i + 1
                  /\ spin' = [ done |-> TRUE,
                               spun |-> SpinReels(stop_positions),
                               original_visible_symbols |-> r.original,
                               expanded_visible_symbols |-> r.expanded,
                               dollar_scatter_count |-> r.dollar_scatter_count,
                               star_scatter_count |-> r.star_scatter_count,
                               spin_payout |-> r.payout,
                               is_winning_spin |-> r.win ]
                  /\ UNCHANGED << pc, raised >>
    /\ UNCHANGED << Fixed, runs, num_spins, total_spins, report >>

\* one iteration of the loop that _spin_reels leaves with the ValueError of
\* random.randrange(0)
SpinReelsError ==
    /\ pc = "running"
    /\ i < num_spins
    /\ SpinReelsRaises
    /\ pc' = "raised"
    /\ raised' = "ValueError"
    /\ UNCHANGED << Fixed, runs, num_spins, i, total_payout,
                    sum_of_squared_payouts, total_spins, total_winning_spins, max_win,
                    payout_contributions, spin, report >>

\* the divisions after the loop raise ZeroDivisionError
FinalizeRaises == total_spins * total_bet_per_spin = 0 \/ total_spins = 0

\* after the loop: the results are computed and the report is printed
Finalize ==
    /\ pc = "running"
    /\ i >= num_spins
    /\ ~FinalizeRaises
    /\ pc' = "finalized"
    /\ report' = [ emitted |-> TRUE,
                   total_spins |-> total_spins,
                   total_bet |-> total_spins * total_bet_per_spin,
                   total_payout |-> total_payout,
                   \* variance = variance_num / total_spins^2
                   variance_num |-> sum_of_squared_payouts * total_spins
                                      - total_payout * total_payout,
                   total_winning_spins |-> total_winning_spins,
                   max_win |-> max_win,
                   contributions |-> payout_contributions ]
    /\ UNCHANGED << Fixed, raised, runs, num_spins, i,
                    total_payout, sum_of_squared_payouts, total_spins,
                    total_winning_spins, max_win, payout_contributions, spin >>

\* after the loop: rtp = total_payout / (total_spins * total_bet_per_spin) raises
FinalizeError ==
    /\ pc = "running"
    /\ i >= num_spins
    /\ FinalizeRaises
    /\ pc' = "raised"
    /\ raised' = "ZeroDivisionError"
    /\ UNCHANGED << Fixed, runs, num_spins, i, total_payout,
                    sum_of_squared_payouts, total_spins, total_winning_spins, max_win,
                    payout_contributions, spin, report >>

Next ==
    \/ \E n \in -1..MaxSpins : RunSimulation(n)
    \/ \E stop_positions \in StopPositions : SpinStep(stop_positions)
    \/ SpinReelsError
    \/ Finalize
    \/ FinalizeError

\* the simulator run up to MaxRuns times for up to MaxSpins spins
Spec == Init /\ [][Next]_vars

-----------------------------------------------------------------------------
(* One spin of each screen the reel strips can show *)

InitSpin ==
    /\ Constructed(SpinConfigs)
    /\ checked_line = << >>

NextSpin ==
    \/ (runs = 0 /\ RunSimulation(1))
    \/ \E stop_positions \in StopPositions : SpinStep(stop_positions)
    \/ Finalize

SpecSpin == InitSpin /\ [][NextSpin]_vars

-----------------------------------------------------------------------------
(* _check_line_win on each line of symbols *)

LineAlphabet == { "Seven", "Plum", "Orange", "Wild", "DollarScatter", "StarScatter" }

InitLine ==
    /\ Constructed({ConfigTies})
    /\ checked_line \in [1..num_reels -> LineAlphabet]

CheckLine ==
    /\ ~line_win.checked
    /\ \E r \in { CheckLineWin(checked_line, regular_symbols_order) } :
          line_win' = [ checked |-> TRUE, err |-> r.err, payout |-> r.payout, key |-> r.key ]
    /\ UNCHANGED << config, line_pays, scatter_pays, regular_symbols_order, checked_line,
                    pc, raised, runs, num_spins, i, total_payout, sum_of_squared_payouts,
                    total_spins, total_winning_spins, max_win, payout_contributions,
                    spin, report >>

NextLine == CheckLine

SpecLine == InitLine /\ [][NextLine]_vars

-----------------------------------------------------------------------------
(* Statements about one evaluated screen *)

\* the 0-based reel indices of a configured reel list
ReelSet(reels) == { reels[k] : k \in 1..Len(reels) }

HasSymbol(col, symbol) == \E row \in 1..Len(col) : col[row] = symbol

\* C3: in the derived screen a reel of the wild-expansion set that shows a wild
\* is all wild and every other column is the original one, and the screen
\* _spin_reels returned is the same after the call as before it
C3_WildExpansion ==
    spin.done =>
        LET before == spin.spun
            after == spin.original_visible_symbols
            derived == spin.expanded_visible_symbols
        IN  /\ after = before
            /\ Len(derived) = Len(before)
            /\ \A r \in 1..Len(before) :
                  IF (r - 1) \in ReelSet(wild_reels) /\ HasSymbol(before[r], wild_symbol)
                  THEN \A row \in 1..num_rows : derived[r][row] = wild_symbol
                  ELSE derived[r] = before[r]

\* a spin where one reel of the set was expanded over other symbols, another
\* reel of the set shows no wild, and a reel outside the set shows a wild
C3_Witness ==
    /\ spin.done
    /\ \E r \in 1..num_reels :
          /\ (r - 1) \in ReelSet(wild_reels)
          /\ HasSymbol(spin.spun[r], wild_symbol)
          /\ \E row \in 1..num_rows : spin.spun[r][row] # wild_symbol
          /\ \A row \in 1..num_rows : spin.expanded_visible_symbols[r][row] = wild_symbol
    /\ \E r \in 1..num_reels :
          (r - 1) \in ReelSet(wild_reels) /\ ~HasSymbol(spin.spun[r], wild_symbol)
    /\ \E r \in 1..num_reels :
          (r - 1) \notin ReelSet(wild_reels) /\ HasSymbol(spin.spun[r], wild_symbol)

\* C4: the grid count is the number of DollarScatter cells of the screen
\* _spin_reels returned and is at most num_reels * num_rows; the reel-presence
\* count is the number of restricted reels showing a StarScatter on that screen
\* and is at most the number of restricted reels
C4_ScatterCounts ==
    spin.done =>
        LET screen == spin.spun
            cells == { c \in (1..num_reels) \X (1..num_rows) : screen[c[1]][c[2]] = "DollarScatter" }
            showing == { r \in ReelSet(star_scatter_reels) : HasSymbol(screen[r + 1], "StarScatter") }
        IN  /\ spin.dollar_scatter_count = Cardinality(cells)
            /\ spin.dollar_scatter_count <= num_reels * num_rows
            /\ spin.star_scatter_count = Cardinality(showing)
            /\ spin.star_scatter_count <= Cardinality(ReelSet(star_scatter_reels))

\* a spin where a restricted reel shows two StarScatter cells, an unrestricted
\* reel shows one, and a DollarScatter cell was covered by the wild expansion
C4_Witness ==
    /\ spin.done
    /\ spin.star_scatter_count >= 1
    /\ \E r \in ReelSet(star_scatter_reels) : CountIn(spin.spun[r + 1], "StarScatter") = 2
    /\ \E r \in 1..num_reels :
          (r - 1) \notin ReelSet(star_scatter_reels) /\ HasSymbol(spin.spun[r], "StarScatter")
    /\ \E r \in 1..num_reels :
          /\ HasSymbol(spin.spun[r], "DollarScatter")
          /\ ~HasSymbol(spin.expanded_visible_symbols[r], "DollarScatter")

-----------------------------------------------------------------------------
(* Statements about one line of symbols *)

\* the number of leading cells of `line` equal to symbol S or to the wild
LeadingRun(line, S) ==
    CHOOSE n \in 0..Len(line) :
        /\ \A c \in 1..n : line[c] = S \/ line[c] = wild_symbol
        /\ n < Len(line) => ~(line[n + 1] = S \/ line[n + 1] = wild_symbol)

\* the counts of S that pay on `line`: between S's minimum and its run length
PayingCounts(line, S) ==
    { c \in (IF S = "Seven" THEN 2 ELSE 3)..LeadingRun(line, S) : << S, c >> \in DOMAIN line_pays }

\* the candidates of `line`: for each regular symbol with a paying count, the
\* highest such count
Candidates(line) ==
    { p \in regular_symbols \X (0..Len(line)) :
        /\ p[2] \in PayingCounts(line, p[1])
        /\ \A c \in PayingCounts(line, p[1]) : c <= p[2] }

\* the candidates of `line` no other candidate pays more than, if they pay
BestCandidates(line) ==
    { p \in Candidates(line) :
        /\ line_pays[p] > 0
        /\ \A q \in Candidates(line) : line_pays[q] <= line_pays[p] }

\* C5: _check_line_win returns the raw payout and the key of a candidate with
\* the highest raw payout (the one candidate with the strictly highest payout
\* when there is one), and payout 0 with no key when no candidate pays
C5_LineResult ==
    line_win.checked =>
        /\ ~line_win.err
        /\ IF BestCandidates(checked_line) = {}
           THEN line_win.payout = 0 /\ line_win.key = NoKey
           ELSE \E p \in BestCandidates(checked_line) :
                   /\ line_win.payout = line_pays[p]
                   /\ line_win.key = [ symbol |-> p[1], count |-> p[2], scatter |-> FALSE ]

\* a line whose winner is found below the run length (Orange has no entry
\* for 4) while another symbol is a candidate too
C5_Witness ==
    /\ line_win.checked
    /\ line_win.key = [ symbol |-> "Orange", count |-> 3, scatter |-> FALSE ]
    /\ LeadingRun(checked_line, "Orange") = 4
    /\ Cardinality(Candidates(checked_line)) >= 2

-----------------------------------------------------------------------------
(* Statements about the payout of one spin *)

\* the payout one payline adds for the derived screen, in units
LineAmount(derived, payline) ==
    LET line == [ c \in 1..Len(payline) |-> derived[payline[c][1] + 1][payline[c][2] + 1] ]
    IN  IF BestCandidates(line) = {} THEN 0
        ELSE LET p == CHOOSE p \in BestCandidates(line) : TRUE
             IN  line_pays[p] * num_lines * bet_per_line

\* whether the scatter symbol pays for a count, and what, in units
ScatterFires(symbol, count) ==
    symbol \in DOMAIN scatter_pays /\ count \in DOMAIN scatter_pays[symbol]

ScatterAmount(symbol, count) ==
    IF ScatterFires(symbol, count) THEN scatter_pays[symbol][count] * total_bet_per_spin ELSE 0

\* C8: the spin's payout is the two scatter payouts plus the payouts of the
\* ten paylines, and the spin is winning exactly when a scatter count has a
\* paytable entry or a payline pays
C8_SpinPayout ==
    spin.done =>
        LET derived == spin.expanded_visible_symbols
            amounts == [ k \in 1..Len(paylines) |-> LineAmount(derived, paylines[k]) ]
        IN  /\ spin.spin_payout =
                   ScatterAmount("DollarScatter", spin.dollar_scatter_count)
                   + ScatterAmount("StarScatter", spin.star_scatter_count)
                   + SumSeq(amounts)
            /\ spin.is_winning_spin <=>
                   \/ ScatterFires("DollarScatter", spin.dollar_scatter_count)
                   \/ ScatterFires("StarScatter", spin.star_scatter_count)
                   \/ \E k \in 1..Len(paylines) : amounts[k] > 0

\* a spin paid by both scatters and by two paylines or more
C8_Witness ==
    /\ spin.done
    /\ ScatterFires("DollarScatter", spin.dollar_scatter_count)
    /\ ScatterFires("StarScatter", spin.star_scatter_count)
    /\ Cardinality({ k \in 1..Len(paylines) :
                       LineAmount(spin.expanded_visible_symbols, paylines[k]) > 0 }) >= 2

-----------------------------------------------------------------------------
(* Statements about repeated evaluation *)

\* C6: evaluating the screen of the spin again, in this process or in one
\* that iterates self.regular_symbols in another order, gives the same payout,
\* the same win flag and the same ledger credits
C6_SameInEveryRun ==
    (spin.done /\ i = 1) =>
        \A order \in Orderings(regular_symbols) :
            LET again == CalculateSpinPayout(spin.spun, EmptyLedger, order)
            IN  /\ again.payout = spin.spin_payout
                /\ again.win = spin.is_winning_spin
                /\ again.ledger = payout_contributions

-----------------------------------------------------------------------------
(* Statements about a simulation run *)

EmptyReelStrip == \E r \in 1..num_reels : Len(virtual_reel_strips[r]) = 0

\* C1: a run with num_spins <= 0 or an empty reel strip evaluates no spin,
\* emits no report, and ends by raising ConfigError
C1_ConfigError ==
    (runs >= 1 /\ (num_spins <= 0 \/ EmptyReelStrip)) =>
        /\ i = 0
        /\ ~spin.done
        /\ pc # "finalized"
        /\ ~report.emitted
        /\ pc = "raised" => raised = "ConfigError"

AllPayoutsZero ==
    /\ \A p \in DOMAIN line_pays : line_pays[p] = 0
    /\ \A s \in DOMAIN scatter_pays : \A n \in DOMAIN scatter_pays[s] : scatter_pays[s][n] = 0

\* C2: with every paytable entry zero, the report of a run has total payout 0,
\* variance 0 and no winning spin
C2_ZeroPaytable ==
    (AllPayoutsZero /\ pc = "finalized") =>
        /\ report.total_payout = 0
        /\ report.variance_num = 0
        /\ report.total_winning_spins = 0

\* C7: with no reel strip empty, no iteration of the loop raises
C7_SpinTotal ==
    ~EmptyReelStrip => raised \notin { "IndexError", "ValueError" }

\* the statistics as run_simulation sets them before the loop
StatsAreZero ==
    /\ total_payout = 0
    /\ sum_of_squared_payouts = 0
    /\ total_winning_spins = 0
    /\ max_win = 0
    /\ payout_contributions = EmptyLedger

\* the totals change in a step only by one completed spin, which adds that
\* spin's payout, its square and its win flag exactly once
OncePerSpin ==
    IF pc = "running" /\ pc' = "running" /\ i' = i + 1
    THEN /\ spin'.done
         /\ total_payout' = total_payout + spin'.spin_payout
         /\ sum_of_squared_payouts' = sum_of_squared_payouts + spin'.spin_payout * spin'.spin_payout
         /\ total_winning_spins' = total_winning_spins + (IF spin'.is_winning_spin THEN 1 ELSE 0)
         /\ max_win' = (IF spin'.spin_payout > max_win THEN spin'.spin_payout ELSE max_win)
    ELSE \/ pc' = "running" /\ i' = 0
         \/ /\ i' = i
            /\ UNCHANGED << total_payout, sum_of_squared_payouts, total_winning_spins, max_win >>

\* C9: a run with num_spins >= 1 starts its loop from zeroed statistics (also
\* a second run on the same simulator), each spin updates the totals exactly
\* once, and the report is made only after exactly num_spins spins, with that
\* spin count and the totals of those spins
C9_RunLifecycle ==
    /\ [](num_spins >= 1 /\ pc = "running" /\ i = 0 => StatsAreZero)
    /\ [][num_spins' >= 1 => OncePerSpin]_vars
    /\ [](num_spins >= 1 /\ pc = "finalized" =>
            /\ i = num_spins
            /\ report.emitted
            /\ report.total_spins = i
            /\ report.total_payout = total_payout
            /\ report.total_winning_spins = total_winning_spins
            /\ report.max_win = max_win
            /\ report.contributions = payout_contributions)

\* the report of a second run of two spins, both paying
C9_Witness ==
    /\ pc = "finalized"
    /\ runs = 2
    /\ num_spins = 2
    /\ report.total_winning_spins = 2
    /\ report.total_payout > report.max_win

RECURSIVE LedgerSum(_)
LedgerSum(ledger) ==
    IF DOMAIN ledger = {} THEN 0
    ELSE LET k == CHOOSE k \in DOMAIN ledger : TRUE
         IN  ledger[k] + LedgerSum([ j \in DOMAIN ledger \ {k} |-> ledger[j] ])

\* C10: after every completed spin of a run the ledger entries sum to the
\* total payout, no ledger entry and no spin payout is negative, max win is
\* at most the total payout, and at most as many spins won as were done
C10_Conservation ==
    (pc \in { "running", "finalized" } /\ i >= 1) =>
        /\ LedgerSum(payout_contributions) = total_payout
        /\ \A k \in DOMAIN payout_contributions : payout_contributions[k] >= 0
        /\ spin.spin_payout >= 0
        /\ max_win <= total_payout
        /\ total_winning_spins <= i

\* two winning spins done, with two ledger keys or more and one of them
\* credited by both spins
C10_Witness ==
    /\ pc = "running"
    /\ i = 2
    /\ total_winning_spins = 2
    /\ max_win > 0
    /\ Cardinality(DOMAIN payout_contributions) >= 2
    /\ \E k \in DOMAIN payout_contributions : payout_contributions[k] > max_win

====
